---- MODULE Spec2Model ----
(***************************************************************************)
(* Waveform-Visualiser (src/main.py): the animation state, the per-frame   *)
(* tick `update`, the grid rebuild `_rebuild_with_points` and the control  *)
(* surface `WaveformUI.update`.                                            *)
(*                                                                         *)
(* Numbers.  Times are whole seconds of time.monotonic(); speeds are       *)
(* counted in units of 0.5 Hz (so the default speed_hz 0.5 is 1) and       *)
(* phases in the matching unit, which keeps dt * speed_hz exact.           *)
(* A sample array is represented by what determines it: the grid by the    *)
(* arguments of linspace, a waveform's Y values by the arguments the       *)
(* waveform function was evaluated with.                                   *)
(*                                                                         *)
(* Failures.  The external render binding may fail: a buffer write in the  *)
(* tick (caught at main.py:192) and subplot.add_line during a rebuild      *)
(* (not caught: it leaves _rebuild_with_points through its finally and     *)
(* then leaves WaveformUI.update).  Nothing in the module handles an       *)
(* exception that escapes WaveformUI.update, so the run ends there         *)
(* (halted).  The array library is total.                                  *)
(***************************************************************************)
EXTENDS Integers, Sequences, FiniteSets, TLC

VARIABLES
    WAVEFORMS,          \* name -> [enabled, freq, amplitude, offset, speed_hz]
    t,                  \* the sample grid
    _phases,            \* name -> phase accumulator
    _is_rebuilding,     \* the rebuilding guard
    _current_n_points,
    _last_time,         \* None or <<timestamp>>
    lines,              \* name -> [id, visible, y]   (the line graphics)
    _line_y_buffers,    \* name -> [num]              (the persistent Y buffers)
    _points,            \* WaveformUI._points
    _pending_points,    \* WaveformUI._pending_points: None or <<n>>
    monotonic,          \* the last value time.monotonic() returned
    subplot,            \* number of graphics ever added to the subplot
    halted,             \* an exception escaped WaveformUI.update
    inputs,             \* number of UI frames that carried a widget event
    last_op,            \* the operation that produced this state
    since_reset,        \* the reset, if any, since the last tick that ran
    skipped             \* name -> seconds of non-resync ticks spent disabled

vars == <<WAVEFORMS, t, _phases, _is_rebuilding, _current_n_points, _last_time,
          lines, _line_y_buffers, _points, _pending_points, monotonic, subplot,
          halted, inputs, last_op, since_reset, skipped>>

(***************************************************************************)
(* Bounds of the exploration.                                              *)
(***************************************************************************)
MaxTime == 4
MaxDt == 2
MaxInputs == 2
MaxPointsInputs == 3

None == <<>>
Some(v) == <<v>>

(***************************************************************************)
(* Module-level data (main.py:12-78).                                      *)
(***************************************************************************)
defaults ==
    [freq |-> 5, amplitude |-> 5, speed_hz |-> 1, n_points |-> 10000]

WaveformOrder == <<"Sine", "Square", "Triangle", "Sawtooth">>

Names == {WaveformOrder[i] : i \in 1..Len(WaveformOrder)}

WAVEFORMS_initial ==
    [name \in Names |->
        [offset    |-> CASE name = "Sine" -> 0
                         [] name = "Square" -> 20
                         [] name = "Triangle" -> 40
                         [] OTHER -> 60,
         enabled   |-> TRUE,
         freq      |-> defaults.freq,
         amplitude |-> defaults.amplitude,
         speed_hz  |-> defaults.speed_hz]]

waveform_defaults ==
    [name \in Names |->
        [freq      |-> WAVEFORMS_initial[name].freq,
         amplitude |-> WAVEFORMS_initial[name].amplitude,
         offset    |-> WAVEFORMS_initial[name].offset,
         speed_hz  |-> WAVEFORMS_initial[name].speed_hz]]

linspace(start, stop, num) == [start |-> start, stop |-> stop, num |-> num]

\* wf["func"](t + phase, wf["freq"], wf["amplitude"]) + wf["offset"]
WaveY(S, name) ==
    [phase     |-> S._phases[name],
     freq      |-> S.WAVEFORMS[name].freq,
     amplitude |-> S.WAVEFORMS[name].amplitude,
     offset    |-> S.WAVEFORMS[name].offset,
     num       |-> S.t.num]

create_waveforms(S) == [name \in Names |-> WaveY(S, name)]

Max(a, b) == IF a >= b THEN a ELSE b

FirstNames(k) == {WaveformOrder[i] : i \in 1..k}


IndexOf(name) == CHOOSE i \in 1..Len(WaveformOrder) : WaveformOrder[i] = name

NoLines == [name \in {} |-> 0]

(***************************************************************************)
(* The working state of a handler: the program's variables, whether an     *)
(* exception is propagating (raised) and the log of the calls made to      *)
(* _rebuild_with_points by the handler (calls).                            *)
(***************************************************************************)
Begin ==
    [WAVEFORMS |-> WAVEFORMS, t |-> t, _phases |-> _phases,
     _is_rebuilding |-> _is_rebuilding, _current_n_points |-> _current_n_points,
     _last_time |-> _last_time, lines |-> lines,
     _line_y_buffers |-> _line_y_buffers, _points |-> _points,
     _pending_points |-> _pending_points, subplot |-> subplot,
     raised |-> FALSE, calls |-> <<>>]

Commit(R) ==
    /\ WAVEFORMS' = R.WAVEFORMS
    /\ t' = R.t
    /\ _phases' = R._phases
    /\ _is_rebuilding' = R._is_rebuilding
    /\ _current_n_points' = R._current_n_points
    /\ _last_time' = R._last_time
    /\ lines' = R.lines
    /\ _line_y_buffers' = R._line_y_buffers
    /\ _points' = R._points
    /\ _pending_points' = R._pending_points
    /\ subplot' = R.subplot

(***************************************************************************)
(* Lines and the grid (main.py:82-157).                                    *)
(***************************************************************************)
\* A failing subplot.delete_graphic is caught per line; the dict is cleared
\* either way.
delete_all_lines(S) == [S EXCEPT !.lines = NoLines]

\* k is the number of subplot.add_line calls that succeed; the next one, if
\* any, raises and the exception leaves the function.
_create_or_recreate_lines(S, k) ==
    LET waves_local == create_waveforms(S)
        S1 == [delete_all_lines(S) EXCEPT !._line_y_buffers = NoLines]
        made == FirstNames(k)
    IN  [S1 EXCEPT
            !.lines = [name \in made |->
                          [id      |-> S.subplot + IndexOf(name),
                           visible |-> S.WAVEFORMS[name].enabled,
                           y       |-> waves_local[name]]],
            !._line_y_buffers = [name \in made |-> [num |-> waves_local[name].num]],
            !.subplot = @ + k,
            !.raised = k < Len(WaveformOrder)]

\* Mutation: the request is taken as it comes.
ClampPoints_Unclamped(new_n_points) == new_n_points

ClampPoints(new_n_points) == Max(2, new_n_points)

SetGuard(S) == [S EXCEPT !._is_rebuilding = TRUE]

\* Mutation: the guard is cleared after the try body instead of in a finally
\* clause, so a raising body leaves it set.
ReleaseGuard_OnSuccessOnly(S) ==
    IF S.raised THEN S ELSE [S EXCEPT !._is_rebuilding = FALSE]

\* the finally clause: runs whether or not the try body raised
ReleaseGuard(S) == [S EXCEPT !._is_rebuilding = FALSE]

SameGraphics(A, B) ==
    /\ A.t = B.t
    /\ A._current_n_points = B._current_n_points
    /\ A.lines = B.lines
    /\ A._line_y_buffers = B._line_y_buffers
    /\ A.subplot = B.subplot

\* One entry of the call log: the argument, the point count before and after,
\* whether the guard was set during the call, whether the call left grid, count,
\* lines and buffers as they were, and whether it raised.
LogCall(S0, S, arg, guard) ==
    [S EXCEPT !.calls = Append(@,
        [arg |-> arg, before |-> S0._current_n_points,
         after |-> S._current_n_points, grid |-> S.t.num, guard |-> guard,
         same |-> SameGraphics(S0, S), raised |-> S.raised,
         released |-> ~S._is_rebuilding])]

\* Mutation: no early return when the count is unchanged.
_rebuild_with_points_Always(S, new_n_points, k) ==
    LET n == ClampPoints(new_n_points)
        S1 == SetGuard(S)
        S2 == [S1 EXCEPT !._current_n_points = n, !.t = linspace(0, 1, n)]
        S3 == _create_or_recreate_lines(S2, k)
        S4 == ReleaseGuard(S3)
    IN  LogCall(S, S4, new_n_points, S1._is_rebuilding)

_rebuild_with_points(S, new_n_points, k) ==
    LET n == ClampPoints(new_n_points)
    IN  IF n = S._current_n_points
        THEN LogCall(S, S, new_n_points, S._is_rebuilding)
        ELSE LET S1 == SetGuard(S)
                 S2 == [S1 EXCEPT !._current_n_points = n,
                                  !.t = linspace(0, 1, n)]
                 S3 == _create_or_recreate_lines(S2, k)
                 S4 == ReleaseGuard(S3)
             IN  LogCall(S, S4, new_n_points, S1._is_rebuilding)

(***************************************************************************)
(* The tick (main.py:164-193).                                             *)
(***************************************************************************)
\* Mutation: the phase advances by the elapsed time, whatever the speed.
AdvancePhase_IgnoresSpeed(S, name, dt) ==
    [S EXCEPT !._phases[name] = @ + dt]

\* _phases[name] += dt * wf["speed_hz"]
AdvancePhase(S, name, dt) ==
    [S EXCEPT !._phases[name] = @ + dt * S.WAVEFORMS[name].speed_hz]

\* The try block: the copy into the line's Y buffer and from there into the
\* line.  A missing buffer (KeyError), a buffer of another length or a failing
\* write (name \in fails) raises inside the try; the except clause swallows it.
WriteLine(S, name, y_shifted, fails) ==
    IF \/ name \notin DOMAIN S._line_y_buffers
       \/ name \in fails
    THEN S
    ELSE IF S._line_y_buffers[name].num # y_shifted.num
         THEN S
         ELSE [S EXCEPT !.lines[name].y = y_shifted]

\* Mutation: the loop does not skip a disabled waveform.
UpdateOne_IgnoresEnabled(S, name, dt, fails) ==
    LET S1 == AdvancePhase(S, name, dt)
    IN  WriteLine(S1, name, WaveY(S1, name), fails)

\* Mutation: the phase is advanced inside the try block, after the write, so
\* a failed write leaves it as it was.
UpdateOne_PhaseAfterWrite(S, name, dt, fails) ==
    IF ~S.WAVEFORMS[name].enabled \/ name \in fails
    THEN S
    ELSE LET S1 == AdvancePhase(S, name, dt)
         IN  WriteLine(S1, name, WaveY(S1, name), fails)

\* One pass of the loop body for the line called name.
UpdateOne(S, name, dt, fails) ==
    IF ~S.WAVEFORMS[name].enabled
    THEN S
    ELSE LET S1 == AdvancePhase(S, name, dt)
         IN  WriteLine(S1, name, WaveY(S1, name), fails)

RECURSIVE UpdateLoop(_, _, _, _)
UpdateLoop(S, names, dt, fails) ==
    IF names = <<>>
    THEN S
    ELSE UpdateLoop(UpdateOne(S, Head(names), dt, fails), Tail(names), dt, fails)

\* list(lines.items()): the lines in insertion order
LineOrder(S) == SelectSeq(WaveformOrder, LAMBDA name : name \in DOMAIN S.lines)

\* the lines the tick writes: those of the enabled waveforms, on the branch
\* that reaches the loop
Writes(S) ==
    IF S._is_rebuilding \/ S._last_time = None
    THEN {}
    ELSE {name \in DOMAIN S.lines : S.WAVEFORMS[name].enabled}

\* The render binding's behaviour during a tick: the set of lines whose write
\* fails; at most one of the writes of a tick does, and only the line named in
\* Unreliable.
Unreliable == {"Square"}

WriteFailures(S) == {{}} \cup {{name} : name \in Writes(S) \cap Unreliable}

TickBranch(S) ==
    IF S._is_rebuilding THEN "guard"
    ELSE IF S._last_time = None THEN "resync"
    ELSE "advance"

update(S, now, fails) ==
    IF S._is_rebuilding
    THEN S
    ELSE IF S._last_time = None
         THEN [S EXCEPT !._last_time = Some(now)]
         ELSE LET dt == now - S._last_time[1]
                  S1 == [S EXCEPT !._last_time = Some(now)]
              IN  UpdateLoop(S1, LineOrder(S1), dt, fails)

(***************************************************************************)
(* The control surface (main.py:207-314).  A frame carries at most one     *)
(* widget event ev = [kind, name, field, value].                           *)
(***************************************************************************)
\* lines[name].visible = v, a KeyError when the line does not exist
SetVisible(S, name, v) ==
    IF name \in DOMAIN S.lines
    THEN [S EXCEPT !.lines[name].visible = v]
    ELSE [S EXCEPT !.raised = TRUE]

Checkbox(S, name) ==
    LET S1 == [S EXCEPT !.WAVEFORMS[name].enabled = ~@]
    IN  SetVisible(S1, name, S1.WAVEFORMS[name].enabled)

SetParam(S, name, field, value) ==
    CASE field = "amplitude" -> [S EXCEPT !.WAVEFORMS[name].amplitude = value]
      [] field = "freq"      -> [S EXCEPT !.WAVEFORMS[name].freq = value]
      [] field = "offset"    -> [S EXCEPT !.WAVEFORMS[name].offset = value]
      [] OTHER               -> [S EXCEPT !.WAVEFORMS[name].speed_hz = value]

\* Mutation: the reset leaves the offset as edited.
RestoreDefaults_KeepsOffset(S, name) ==
    [S EXCEPT !.WAVEFORMS[name] =
        [freq      |-> waveform_defaults[name].freq,
         amplitude |-> waveform_defaults[name].amplitude,
         offset    |-> @.offset,
         speed_hz  |-> waveform_defaults[name].speed_hz,
         enabled   |-> TRUE]]

RestoreDefaults(S, name) ==
    [S EXCEPT !.WAVEFORMS[name] =
        [freq      |-> waveform_defaults[name].freq,
         amplitude |-> waveform_defaults[name].amplitude,
         offset    |-> waveform_defaults[name].offset,
         speed_hz  |-> waveform_defaults[name].speed_hz,
         enabled   |-> TRUE]]

\* The statements the two resets share (main.py:272-278 and 306-312).
ResetOne(S, name) ==
    LET S1 == SetVisible(RestoreDefaults(S, name), name, TRUE)
    IN  IF S1.raised THEN S1 ELSE [S1 EXCEPT !._phases[name] = 0]

\* Mutation: the reset forgets to clear the timestamp.
ResyncTiming_Forgotten(S) == S

\* _last_time = None
ResyncTiming(S) == [S EXCEPT !._last_time = None]

ResetButton(S, name) ==
    LET S1 == ResetOne(S, name)
    IN  IF S1.raised THEN S1 ELSE ResyncTiming(S1)

TabItem(S, ev) ==
    CASE ev.kind = "checkbox" -> Checkbox(S, ev.name)
      [] ev.kind = "param"    -> SetParam(S, ev.name, ev.field, ev.value)
      [] ev.kind = "reset"    -> ResetButton(S, ev.name)
      [] OTHER                -> S

PointsControls(S, ev, k) ==
    LET S1 == IF ev.kind \in {"points_slider", "points_text"}
              THEN [S EXCEPT !._points = ev.value,
                             !._pending_points = Some(ev.value)]
              ELSE S
    IN  IF /\ S1._pending_points # None
           /\ S1._pending_points[1] # S1._current_n_points
        THEN LET S2 == _rebuild_with_points(S1, S1._pending_points[1], k)
             IN  IF S2.raised THEN S2 ELSE [S2 EXCEPT !._pending_points = None]
        ELSE S1

RECURSIVE ResetLoop(_, _)
ResetLoop(S, names) ==
    IF names = <<>> \/ S.raised
    THEN S
    ELSE ResetLoop(ResetOne(S, Head(names)), Tail(names))

ResetAllButton(S, k) ==
    LET S1 == [S EXCEPT !._points = defaults.n_points]
        S2 == ResetLoop(S1, WaveformOrder)
    IN  IF S2.raised
        THEN S2
        ELSE LET S3 == ResyncTiming(S2)
             IN  _rebuild_with_points(S3, S3._points, k)

\* k1, k2: how many lines the render binding lets the rebuild of the Points
\* controls, resp. of Reset All, create before it fails (all of them: no failure).
WaveformUI_update(S, ev, k1, k2) ==
    LET A == TabItem(S, ev)
        B == IF A.raised THEN A ELSE PointsControls(A, ev, k1)
    IN  IF B.raised \/ ev.kind # "reset_all" THEN B ELSE ResetAllButton(B, k2)

(***************************************************************************)
(* Inputs of the exploration.                                              *)
(***************************************************************************)
NoEvent == [kind |-> "none", name |-> "", field |-> "", value |-> 0]

\* values the parameter widgets deliver (speeds in units of 0.5 Hz)
ParamInputs ==
    [amplitude |-> {10}, freq |-> {100}, offset |-> {-100}, speed_hz |-> {-1}]

ParamFields == DOMAIN ParamInputs

\* the tabs the user works in
Operated == {"Square"}

\* slider_int("Points", ..., 128, 200_000) delivers values of its range,
\* input_int("##Points", ...) any integer
SliderPoints == {128}

TextPoints == {-1, 0, 1, 2}

\* The widget events of a frame, one set per kind of widget.
Event(kind, name, field, value) ==
    [kind |-> kind, name |-> name, field |-> field, value |-> value]

CheckboxEvents == {Event("checkbox", name, "", 0) : name \in Operated}

ParamEvents ==
    UNION {{Event("param", name, field, value) : value \in ParamInputs[field]} :
              name \in Operated, field \in ParamFields}

ResetEvents == {Event("reset", name, "", 0) : name \in Operated}

PointsSliderEvents ==
    {Event("points_slider", "", "", value) : value \in SliderPoints}

PointsTextEvents ==
    {Event("points_text", "", "", value) : value \in TextPoints}

ResetAllEvent == Event("reset_all", "", "", 0)

\* The render binding's behaviour during a frame: which call of
\* _rebuild_with_points (1: Points controls, 2: Reset All) meets a failing
\* add_line, and after how many lines.  Only a call that recreates the lines
\* calls add_line, so only such a call can meet the failure.
NoFailure == [call |-> 0, made |-> Len(WaveformOrder)]

Made(f, call) == IF f.call = call THEN f.made ELSE Len(WaveformOrder)

CallSite(ev, calls, i) ==
    IF ev.kind = "reset_all" /\ i = Len(calls) THEN 2 ELSE 1

Failures(ev, calls) ==
    {NoFailure} \cup
    {[call |-> CallSite(ev, calls, i), made |-> k] :
        i \in {j \in 1..Len(calls) : ~calls[j].same},
        k \in 0..(Len(WaveformOrder) - 1)}

(***************************************************************************)
(* Initial state: the module's top-level code up to fig.show (main.py:69-  *)
(* 78, 108-111, 160, 204-205).                                             *)
(***************************************************************************)
Startup ==
    _create_or_recreate_lines(
        [WAVEFORMS |-> WAVEFORMS_initial,
         t |-> linspace(0, 1, defaults.n_points),
         _phases |-> [name \in Names |-> 0],
         _is_rebuilding |-> FALSE,
         _current_n_points |-> defaults.n_points,
         _last_time |-> None,
         lines |-> NoLines,
         _line_y_buffers |-> NoLines,
         _points |-> defaults.n_points,
         _pending_points |-> None,
         subplot |-> 0,
         raised |-> FALSE,
         calls |-> <<>>],
        Len(WaveformOrder))

Init ==
    /\ WAVEFORMS = Startup.WAVEFORMS
    /\ t = Startup.t
    /\ _phases = Startup._phases
    /\ _is_rebuilding = Startup._is_rebuilding
    /\ _current_n_points = Startup._current_n_points
    /\ _last_time = Startup._last_time
    /\ lines = Startup.lines
    /\ _line_y_buffers = Startup._line_y_buffers
    /\ _points = Startup._points
    /\ _pending_points = Startup._pending_points
    /\ subplot = Startup.subplot
    /\ monotonic = 0
    /\ halted = FALSE
    /\ inputs = 0
    /\ last_op = [op |-> "init", ev |-> NoEvent, branch |-> "none", fails |-> {},
                  dt |-> 0, after |-> "none", raised |-> FALSE, calls |-> <<>>]
    /\ since_reset = "none"
    /\ skipped = [name \in Names |-> 0]

(***************************************************************************)
(* Actions: one call of the animation callback, one call of the GUI        *)
(* callback per kind of widget event.                                      *)
(***************************************************************************)
\* subplot.add_animations(update): the render loop calls update once a frame
Tick ==
    /\ ~halted
    /\ \E d \in 1..MaxDt, fails \in WriteFailures(Begin) :
        /\ monotonic + d <= MaxTime
        /\ LET now == monotonic + d
               br  == TickBranch(Begin)
               dt  == IF br = "advance" THEN now - _last_time[1] ELSE 0
               R   == update(Begin, now, fails)
           IN  /\ Commit(R)
               /\ monotonic' = now
               /\ last_op' =
                    [op |-> "tick", ev |-> NoEvent, branch |-> br,
                     fails |-> fails,
                     dt |-> dt, after |-> since_reset, raised |-> FALSE,
                     calls |-> <<>>]
               /\ since_reset' = IF br = "guard" THEN since_reset ELSE "none"
               /\ skipped' = IF br = "advance"
                             THEN [n \in Names |->
                                     IF WAVEFORMS[n].enabled
                                     THEN skipped[n] ELSE skipped[n] + dt]
                             ELSE skipped
    /\ UNCHANGED <<halted, inputs>>

\* fig.add_gui(gui): the render loop calls WaveformUI.update once a frame
\* A widget reports a change only when it delivers a value other than the one
\* it was given to show.
Changed(ev) ==
    CASE ev.kind \in {"points_slider", "points_text"} -> ev.value # _points
      [] ev.kind = "param" ->
            ev.value # (CASE ev.field = "amplitude" -> WAVEFORMS[ev.name].amplitude
                          [] ev.field = "freq"      -> WAVEFORMS[ev.name].freq
                          [] ev.field = "offset"    -> WAVEFORMS[ev.name].offset
                          [] OTHER                  -> WAVEFORMS[ev.name].speed_hz)
      [] OTHER -> TRUE

FrameWithin(ev, budget) ==
    /\ ~halted
    /\ ev.kind # "none" => inputs < budget
    /\ Changed(ev)
    /\ \E f \in Failures(ev, WaveformUI_update(Begin, ev, Made(NoFailure, 1),
                                               Made(NoFailure, 2)).calls) :
        LET R == WaveformUI_update(Begin, ev, Made(f, 1), Made(f, 2))
            rebuilt == R.calls # <<>> /\ ~R.calls[Len(R.calls)].same
        IN  /\ Commit(R)
            /\ halted' = R.raised
            /\ last_op' =
                 [op |-> "frame", ev |-> ev, branch |-> "none", fails |-> {},
                  dt |-> 0, after |-> "none", raised |-> R.raised,
                  calls |-> R.calls]
            /\ since_reset' =
                 CASE R.raised -> since_reset
                   [] ev.kind = "reset" -> "reset"
                   [] ev.kind = "reset_all" ->
                        IF rebuilt THEN "reset_all_rebuild" ELSE "reset_all"
                   [] OTHER -> since_reset
            /\ skipped' =
                 CASE R.raised -> skipped
                   [] ev.kind = "reset" -> [skipped EXCEPT ![ev.name] = 0]
                   [] ev.kind = "reset_all" -> [n \in Names |-> 0]
                   [] OTHER -> skipped
    /\ inputs' = IF ev.kind = "none" THEN inputs ELSE inputs + 1
    /\ monotonic' = monotonic

Frame(ev) == FrameWithin(ev, MaxInputs)

FrameIdle == Frame(NoEvent)

FrameCheckbox == \E ev \in CheckboxEvents : Frame(ev)

FrameParam == \E ev \in ParamEvents : Frame(ev)

FrameReset == \E ev \in ResetEvents : Frame(ev)

FramePointsSlider == \E ev \in PointsSliderEvents : Frame(ev)

FramePointsText == \E ev \in PointsTextEvents : Frame(ev)

FrameResetAll == Frame(ResetAllEvent)

Next ==
    \/ Tick
    \/ FrameIdle
    \/ FrameCheckbox
    \/ FrameParam
    \/ FrameReset
    \/ FramePointsSlider
    \/ FramePointsText
    \/ FrameResetAll

Spec == Init /\ [][Next]_vars

(***************************************************************************)
(* The Points controls and Reset All alone, followed over more frames.     *)
(***************************************************************************)
PointsSliderOnly ==
    \E ev \in PointsSliderEvents : FrameWithin(ev, MaxPointsInputs)

PointsTextOnly ==
    \E ev \in PointsTextEvents : FrameWithin(ev, MaxPointsInputs)

ResetAllOnly == FrameWithin(ResetAllEvent, MaxPointsInputs)

NextPoints ==
    \/ Tick
    \/ FrameIdle
    \/ PointsSliderOnly
    \/ PointsTextOnly
    \/ ResetAllOnly

SpecPoints == Init /\ [][NextPoints]_vars

(***************************************************************************)
(* Vocabulary of the properties.                                           *)
(***************************************************************************)
Ticked == last_op.op = "tick"

Framed(kind) == last_op.op = "frame" /\ last_op.ev.kind = kind

AtLeastTwo(n) == IF n < 2 THEN 2 ELSE n

Calls == {last_op.calls[i] : i \in 1..Len(last_op.calls)}

(***************************************************************************)
(* C1.  While a waveform is disabled every tick leaves its phase unchanged; *)
(* the Enabled checkbox changes no phase and no timestamp; the timestamp    *)
(* moves to `now` in every tick that runs, so a tick on an enabled waveform *)
(* adds exactly (now - time of the previous tick) * speed to the phase it   *)
(* finds, however long the waveform had been disabled before.               *)
(***************************************************************************)
C1_DisabledPhaseFrozen ==
    /\ [](_last_time # None => _last_time = Some(monotonic))
    /\ [][/\ last_op'.op = "tick" =>
                /\ last_op'.branch # "guard" => _last_time' = Some(monotonic')
                /\ \A n \in Names :
                     /\ ~WAVEFORMS[n].enabled => _phases'[n] = _phases[n]
                     /\ WAVEFORMS[n].enabled /\ last_op'.branch = "advance" =>
                          _phases'[n] = _phases[n]
                              + (monotonic' - monotonic) * WAVEFORMS[n].speed_hz
          /\ (last_op'.op = "frame" /\ last_op'.ev.kind = "checkbox") =>
                /\ _phases' = _phases
                /\ _last_time' = _last_time
                /\ WAVEFORMS'[last_op'.ev.name].enabled
                     = ~WAVEFORMS[last_op'.ev.name].enabled
         ]_vars

\* A waveform that sat out at least one advancing tick while disabled, is
\* enabled again and has just been advanced from a non-zero frozen phase.
C1_Witness ==
    /\ Ticked /\ last_op.branch = "advance"
    /\ \E n \in Names :
         /\ WAVEFORMS[n].enabled
         /\ skipped[n] > 0
         /\ WAVEFORMS[n].speed_hz > 0
         /\ _phases[n] > last_op.dt * WAVEFORMS[n].speed_hz

(***************************************************************************)
(* C2.  After a per-waveform reset or Reset All the reset waveforms' phase  *)
(* is 0 and _last_time is None; _last_time stays None until a tick runs,    *)
(* and that tick is a resync: it sets _last_time to now and changes no      *)
(* phase, whether or not Reset All rebuilt the grid.                        *)
(***************************************************************************)
C2_ResetForcesResync ==
    /\ []((Framed("reset") /\ ~last_op.raised) =>
             _phases[last_op.ev.name] = 0 /\ _last_time = None)
    /\ []((Framed("reset_all") /\ ~last_op.raised) =>
             (\A n \in Names : _phases[n] = 0) /\ _last_time = None)
    /\ []((Ticked /\ last_op.after # "none") => last_op.branch = "resync")
    /\ [][_last_time = None =>
            IF last_op'.op = "tick"
            THEN /\ last_op'.branch = "resync"
                 /\ _last_time' = Some(monotonic')
                 /\ _phases' = _phases
            ELSE _last_time' = None
         ]_vars

\* The first tick after a Reset All that rebuilt the grid, earlier ticks
\* having run, was a resync.
C2_Witness ==
    /\ Ticked /\ last_op.after = "reset_all_rebuild"
    /\ last_op.branch = "resync"
    /\ monotonic >= 3
    /\ _last_time = Some(monotonic)
    /\ \A n \in Names : _phases[n] = 0

(***************************************************************************)
(* C3 (as claimed).  After any rebuild that changes the point count,        *)
(* _last_time is None.                                                      *)
(***************************************************************************)
C3_RebuildForcesResync ==
    (/\ last_op.op = "frame"
     /\ ~last_op.raised
     /\ \E c \in Calls : c.before # c.after) => _last_time = None

(***************************************************************************)
(* C4 (as claimed).  A tick leaves the phase of a waveform whose buffer     *)
(* write failed as it was.                                                  *)
(***************************************************************************)
C4_FailedWriteKeepsPhase ==
    [][last_op'.op = "tick" =>
          \A n \in last_op'.fails : _phases'[n] = _phases[n]]_vars

(***************************************************************************)
(* C4 (amended).  When the buffer write for a waveform fails during a tick  *)
(* the failure is caught: the waveform's line is left as it was, its        *)
(* parameters and enabled flag are unchanged, but its phase has already     *)
(* been advanced by dt * speed; the tick does not raise and every other     *)
(* enabled waveform is advanced and drawn at its new phase.                 *)
(***************************************************************************)
C4_FailedWriteSkipsLineOnly ==
    [][(last_op'.op = "tick" /\ last_op'.fails # {}) =>
          /\ ~halted'
          /\ WAVEFORMS' = WAVEFORMS
          /\ \A n \in last_op'.fails :
                /\ lines'[n] = lines[n]
                /\ _phases'[n] = _phases[n] + last_op'.dt * WAVEFORMS[n].speed_hz
          /\ \A m \in Names \ last_op'.fails :
                WAVEFORMS[m].enabled =>
                    /\ _phases'[m] = _phases[m] + last_op'.dt * WAVEFORMS[m].speed_hz
                    /\ lines'[m].y.phase = _phases'[m]
      ]_vars

\* A tick in which one write failed: that line still shows an older phase,
\* another line shows its waveform's new phase.
C4_Witness ==
    /\ Ticked /\ last_op.branch = "advance"
    /\ \E n \in last_op.fails :
         /\ lines[n].y.phase # _phases[n]
         /\ \E m \in Names \ {n} :
              _phases[m] # 0 /\ lines[m].y.phase = _phases[m]

(***************************************************************************)
(* C5.  A call of _rebuild_with_points(n) with max(2, n) equal to the       *)
(* current point count changes neither the grid, the point count, the       *)
(* lines nor the Y buffers, creates no graphic, and never sets the guard.   *)
(***************************************************************************)
C5_RebuildSameCountIsNoop ==
    \A c \in Calls :
        AtLeastTwo(c.arg) = c.before =>
            c.same /\ ~c.guard /\ ~c.raised /\ c.after = c.before

\* A call whose argument differs from the current count and is clamped onto it.
C5_Witness ==
    /\ last_op.op = "frame"
    /\ \E c \in Calls : c.arg # c.before /\ AtLeastTwo(c.arg) = c.before /\ c.same

(***************************************************************************)
(* C6.  A call of _rebuild_with_points(n) that returns leaves the point     *)
(* count at max(2, n) and a grid of that many points; in every state the    *)
(* grid runs from 0 to 1 over at least 2 points, as many as the current     *)
(* point count, and every line and every Y buffer has that length.          *)
(***************************************************************************)
C6_GridLengthClamped ==
    /\ \A c \in Calls :
          ~c.raised => c.after = AtLeastTwo(c.arg) /\ c.grid = c.after
    /\ t = [start |-> 0, stop |-> 1, num |-> _current_n_points]
    /\ t.num >= 2
    /\ \A n \in DOMAIN _line_y_buffers : _line_y_buffers[n].num = t.num
    /\ \A n \in DOMAIN lines : lines[n].y.num = t.num

\* A request below 2 that rebuilt the grid with 2 points.
C6_Witness ==
    /\ last_op.op = "frame" /\ ~last_op.raised
    /\ \E c \in Calls : c.arg < 2 /\ c.before # 2 /\ c.after = 2
    /\ t.num = 2
    /\ DOMAIN lines = Names

(***************************************************************************)
(* C7.  The guard is released on every exit path of _rebuild_with_points,   *)
(* the raising one included: it is false in every state between handlers,   *)
(* it is set only inside a call that rebuilds, and no tick is dropped for   *)
(* it.                                                                      *)
(***************************************************************************)
C7_GuardReleased ==
    /\ ~_is_rebuilding
    /\ \A c \in Calls : c.released /\ (c.guard => AtLeastTwo(c.arg) # c.before)
    /\ Ticked => last_op.branch # "guard"

\* A rebuild that set the guard and raised midway.
C7_Witness ==
    /\ halted /\ last_op.raised
    /\ \E c \in Calls : c.raised /\ c.guard /\ c.released
    /\ DOMAIN lines # Names /\ DOMAIN lines # {}
    /\ ~_is_rebuilding

(***************************************************************************)
(* C8.  Immediately after Reset All every waveform has its recorded         *)
(* default frequency, amplitude, offset and speed, is enabled, has a        *)
(* visible line and phase 0; the point count is the default, the grid       *)
(* having been rebuilt iff it was not before; _last_time is None.           *)
(***************************************************************************)
C8_ResetAllRestoresDefaults ==
    (Framed("reset_all") /\ ~last_op.raised) =>
        /\ \A n \in Names :
              /\ WAVEFORMS[n].freq = waveform_defaults[n].freq
              /\ WAVEFORMS[n].amplitude = waveform_defaults[n].amplitude
              /\ WAVEFORMS[n].offset = waveform_defaults[n].offset
              /\ WAVEFORMS[n].speed_hz = waveform_defaults[n].speed_hz
              /\ WAVEFORMS[n].enabled
              /\ n \in DOMAIN lines /\ lines[n].visible
              /\ _phases[n] = 0
        /\ _current_n_points = defaults.n_points
        /\ t.num = defaults.n_points
        /\ last_op.calls # <<>>
        /\ LET c == last_op.calls[Len(last_op.calls)]
           IN  /\ c.arg = defaults.n_points
               /\ c.same <=> c.before = defaults.n_points
        /\ _last_time = None
        /\ _points = defaults.n_points

\* A Reset All that found another point count and rebuilt the grid.
C8_Witness ==
    /\ Framed("reset_all") /\ ~last_op.raised
    /\ ~last_op.calls[Len(last_op.calls)].same
    /\ monotonic > 0

(***************************************************************************)
(* C9.  A tick with _last_time None sets it to now and changes no phase;    *)
(* any other tick adds (now - _last_time) * speed to the phase of every     *)
(* enabled waveform, once, leaves the phase of every disabled one and sets  *)
(* _last_time to now.  A frame changes phases only by a reset, and then     *)
(* only those of the reset waveforms, to 0.                                 *)
(***************************************************************************)
C9_PhaseChangesOnlyByTickOrReset ==
    [][/\ (last_op'.op = "tick" /\ _last_time = None) =>
             _last_time' = Some(monotonic') /\ _phases' = _phases
       /\ (last_op'.op = "tick" /\ _last_time # None) =>
             /\ _last_time' = Some(monotonic')
             /\ \A n \in Names :
                  _phases'[n] =
                      IF WAVEFORMS[n].enabled
                      THEN _phases[n]
                             + (monotonic' - _last_time[1]) * WAVEFORMS[n].speed_hz
                      ELSE _phases[n]
       /\ last_op'.op = "frame" =>
             \A n \in Names :
                 \/ _phases'[n] = _phases[n]
                 \/ /\ _phases'[n] = 0
                    /\ \/ last_op'.ev.kind = "reset_all"
                       \/ last_op'.ev.kind = "reset" /\ last_op'.ev.name = n
      ]_vars

\* A tick that advanced one waveform at an edited speed and another at the
\* default speed.
C9_Witness ==
    /\ Ticked /\ last_op.branch = "advance"
    /\ \E n, m \in Names :
         /\ WAVEFORMS[n].speed_hz = -1 /\ _phases[n] < 0
         /\ WAVEFORMS[m].speed_hz = 1 /\ _phases[m] > 0

(***************************************************************************)
(* C10 (as claimed).  The current point count changes only in a frame in    *)
(* which the Points slider or input changed or Reset All was pressed.       *)
(***************************************************************************)
C10_PointCountChangesOnlyOnInput ==
    [][(_current_n_points' # _current_n_points /\ ~halted') =>
          /\ last_op'.op = "frame"
          /\ last_op'.ev.kind \in {"points_slider", "points_text", "reset_all"}
      ]_vars

====
